---- MODULE Spec2Model ----
(***************************************************************************)
(* Model of the allocation engine of optimizador-rutas:                    *)
(*   optimizarRutasBasico  (Allocate, first fit decreasing)                *)
(*   calcularMetricas      (Score)                                         *)
(*   app.post('/api/optimizar')  (the caller of both)                      *)
(* as found in src/frontend/src/App.js.                                    *)
(*                                                                         *)
(* A tienda (demand item) is identified by its position in the input list  *)
(* and carries combis_promedio; a vehiculo (capacity unit) is identified   *)
(* by its position and carries capacidad_combis.  Loads are whole combis.  *)
(* JavaScript numbers that come out of a division are kept as exact        *)
(* fractions, together with NaN and Infinity.                              *)
(***************************************************************************)
EXTENDS Integers, Sequences, FiniteSets, TLC

\* ---------------------------------------------------------------- bounds
MaxTiendas == 3
MaxVehiculos == 2
MaxCombis == 2
MaxCapacidad == 3

\* ------------------------------------------------- JavaScript arithmetic
Abs(n) == IF n < 0 THEN -n ELSE n

Sign(n) == IF n < 0 THEN -1 ELSE 1

RECURSIVE GCD(_, _)
GCD(a, b) == IF b = 0 THEN a ELSE GCD(b, a % b)

NaN == [kind |-> "NaN", num |-> 0, den |-> 1]

Infinity(s) == [kind |-> "Infinity", num |-> s, den |-> 1]

\* the fraction n/d (d # 0) in lowest terms with a positive denominator
Rat(n, d) ==
  LET g == GCD(Abs(n), Abs(d))
  IN [kind |-> "num", num |-> Sign(d) * (n \div g), den |-> Abs(d) \div g]

Num(n) == Rat(n, 1)

\* x / y
JSDiv(x, y) ==
  IF x.kind = "NaN" \/ y.kind = "NaN" THEN NaN
  ELSE IF x.kind = "Infinity"
       THEN IF y.kind = "Infinity" THEN NaN
            ELSE Infinity(x.num * Sign(y.num))
  ELSE IF y.kind = "Infinity" THEN Num(0)
  ELSE IF y.num = 0
       THEN IF x.num = 0 THEN NaN ELSE Infinity(Sign(x.num))
  ELSE Rat(x.num * y.den, x.den * y.num)

\* x * y
JSMul(x, y) ==
  IF x.kind = "NaN" \/ y.kind = "NaN" THEN NaN
  ELSE IF x.kind = "Infinity" \/ y.kind = "Infinity"
       THEN IF x.num = 0 \/ y.num = 0 THEN NaN
            ELSE Infinity(Sign(x.num) * Sign(y.num))
  ELSE Rat(x.num * y.num, x.den * y.den)

\* x - y
JSSub(x, y) ==
  IF x.kind = "NaN" \/ y.kind = "NaN" THEN NaN
  ELSE IF x.kind = "Infinity"
       THEN IF y.kind = "Infinity" /\ y.num = x.num THEN NaN ELSE x
  ELSE IF y.kind = "Infinity" THEN Infinity(-y.num)
  ELSE Rat(x.num * y.den - y.num * x.den, x.den * y.den)

\* Math.round: the nearest integer, halves towards +Infinity
MathRound(x) ==
  IF x.kind = "num" THEN Num((2 * x.num + x.den) \div (2 * x.den)) ELSE x

\* Math.ceil
MathCeil(x) ==
  IF x.kind = "num" THEN Num(-((-x.num) \div x.den)) ELSE x

\* Math.max(x, y)
MathMax(x, y) ==
  IF x.kind = "NaN" \/ y.kind = "NaN" THEN NaN
  ELSE IF x.kind = "Infinity" THEN (IF x.num > 0 THEN x ELSE y)
  ELSE IF y.kind = "Infinity" THEN (IF y.num > 0 THEN y ELSE x)
  ELSE IF x.num * y.den >= y.num * x.den THEN x ELSE y

\* ------------------------------------------------------------ the inputs
RECURSIVE SeqsUpTo(_, _)
SeqsUpTo(S, n) ==
  IF n = 0 THEN {<<>>}
  ELSE LET shorter == SeqsUpTo(S, n - 1)
       IN shorter \cup {Append(s, x) : s \in {q \in shorter : Len(q) = n - 1}, x \in S}

\* lists of combis_promedio, one entry per tienda
ListasTiendas == SeqsUpTo(0..MaxCombis, MaxTiendas)

\* lists of capacidad_combis, one entry per vehiculo
ListasVehiculos == SeqsUpTo(0..MaxCapacidad, MaxVehiculos)

\* the rows of a query that ends in ORDER BY ... DESC
OrdenDesc(s) == \A i \in 1..(Len(s) - 1) : s[i] >= s[i + 1]

\* the two worked inputs: demands [8,5,5,2] on capacities [10,10], and
\* demands [10,4,4,4] on one capacity unit of 12
Ejemplos ==
  {<< <<8, 5, 5, 2>>, <<10, 10>> >>,
   << <<10, 4, 4, 4>>, <<12>> >>}

\* the (tiendas, vehiculos) pairs a call is made with
Entradas == (ListasTiendas \X ListasVehiculos) \cup Ejemplos

VARIABLES
  modo,              \* "funcion": Allocate/Score called directly; "endpoint": POST /api/optimizar
  tiendas,           \* the demand list given to optimizarRutasBasico
  vehiculos,         \* the capacity list given to optimizarRutasBasico
  pc,                \* the position of the call
  tiendasOrdenadas,  \* positions of tiendas in the order they are considered
  rutas,             \* the bins, one per vehiculo
  k,                 \* the position in tiendasOrdenadas the forEach is at
  cargaVista,        \* history: per tienda, the used loads of all bins when it was considered
  rutasOptimizadas,  \* what optimizarRutasBasico returned
  metricas,          \* what calcularMetricas returned
  response,          \* what the endpoint answered
  escenarios,        \* the rows of table escenarios: the activo flag of each, by id
  peticiones,        \* the PUT /api/escenarios/:id/activar requests and where each is
  loading,           \* useState(false): the UI's busy flag
  optimizationResult, \* useState(null): the stored answer of POST /api/optimizar; 0 is null
  error,             \* useState(null): the message apiCall stored last
  uploadFile,        \* useState(null): whether a file is selected
  uploadResult,      \* useState(null): whether an answer of the import is stored
  proveedores,       \* useState([]): whether an answer of GET /api/proveedores is stored
  vehiculosUI,       \* useState([]): the UI's vehiculos, whether an answer of GET /api/vehiculos is stored
  operaciones,       \* the calls of the UI's async functions and where each is
  ultima             \* history: how the optimizarRutas that returned last ended

varsOptimizar == <<modo, tiendas, vehiculos, pc, tiendasOrdenadas, rutas, k, cargaVista,
                   rutasOptimizadas, metricas, response>>

varsEscenarios == <<escenarios, peticiones>>

varsUI == <<loading, optimizationResult, error, uploadFile, uploadResult, proveedores,
            vehiculosUI, operaciones, ultima>>

vars == <<varsOptimizar, varsEscenarios, varsUI>>

MaxEscenarios == 2
MaxPeticiones == 2
MaxOperaciones == 2
MaxDatos == 1

\* a call slot with no call in it
OperacionLibre == [tipo |-> "", pc |-> "libre", llamada |-> ""]

\* the useState initial values, and no call of an async function under way
UIEnReposo ==
  /\ loading = FALSE
  /\ optimizationResult = 0
  /\ error = "null"
  /\ uploadFile = FALSE
  /\ uploadResult = FALSE
  /\ proveedores = FALSE
  /\ vehiculosUI = FALSE
  /\ operaciones = [o \in 1..MaxOperaciones |-> OperacionLibre]
  /\ ultima = "ninguna"

\* a request that has not arrived yet
PeticionLibre == [pc |-> "libre", id |-> 0, status |-> 0]

\* table escenarios as initializeDatabase leaves it, and no request under way
EscenariosEnReposo ==
  /\ escenarios = <<>>
  /\ peticiones = [r \in 1..MaxPeticiones |-> PeticionLibre]

SinMetricas == [pendiente |-> TRUE]

SinRespuesta == [status |-> 0]

Init ==
  /\ modo \in {"funcion", "endpoint"}
  /\ \E e \in Entradas : tiendas = e[1] /\ vehiculos = e[2]
  /\ modo = "endpoint" => OrdenDesc(tiendas) /\ OrdenDesc(vehiculos)
  /\ pc = IF modo = "endpoint" THEN "consultar" ELSE "ordenar"
  /\ tiendasOrdenadas = <<>>
  /\ rutas = <<>>
  /\ k = 1
  /\ cargaVista = <<>>
  /\ rutasOptimizadas = <<>>
  /\ metricas = SinMetricas
  /\ response = SinRespuesta
  /\ EscenariosEnReposo
  /\ UIEnReposo

\* ------------------------------------------------- optimizarRutasBasico
\* a comparator that sorts ascending
CompararAscendente(a, b) == a - b

\* the comparator of the sort: (a, b) => b.combis_promedio - a.combis_promedio
Comparar(a, b) == b - a

\* Array.prototype.sort is stable: i goes behind every element that does not
\* compare greater than it
RECURSIVE Insertar(_, _, _)
Insertar(s, i, t) ==
  IF s = <<>> THEN <<i>>
  ELSE IF Comparar(t[Head(s)], t[i]) <= 0
       THEN <<Head(s)>> \o Insertar(Tail(s), i, t)
       ELSE <<i>> \o s

RECURSIVE OrdenarHasta(_, _)
OrdenarHasta(t, n) ==
  IF n = 0 THEN <<>> ELSE Insertar(OrdenarHasta(t, n - 1), n, t)

\* [...tiendas].sort(...): the positions of t by combis_promedio descending
Ordenar(t) == OrdenarHasta(t, Len(t))

\* vehiculos.map(vehiculo => ({...}))
RutaInicial(vs, j) ==
  [vehiculo_id |-> j,
   capacidad_maxima |-> vs[j],
   capacidad_usada |-> 0,
   tiendas |-> <<>>,
   eficiencia |-> Num(0)]

InicializarRutasDe(vs) == [j \in 1..Len(vs) |-> RutaInicial(vs, j)]

\* tiendas.sort(...) without the spread: the caller's array is reordered
EntradaOrdenadaEnSitio(t) == [p \in 1..Len(t) |-> t[Ordenar(t)[p]]]

\* [...tiendas]: the sort works on a copy, the caller's array keeps its order
EntradaTrasOrdenar(t) == t

OrdenarTiendas ==
  /\ pc = "ordenar"
  /\ tiendasOrdenadas' = Ordenar(tiendas)
  /\ tiendas' = EntradaTrasOrdenar(tiendas)
  /\ pc' = "inicializar"
  /\ UNCHANGED <<modo, vehiculos, rutas, k, cargaVista, rutasOptimizadas,
                 metricas, response>>
  /\ UNCHANGED <<varsEscenarios, varsUI>>

InicializarRutas ==
  /\ pc = "inicializar"
  /\ rutas' = InicializarRutasDe(vehiculos)
  /\ k' = 1
  /\ cargaVista' = [i \in 1..Len(tiendas) |-> <<>>]
  /\ pc' = "asignar"
  /\ UNCHANGED <<modo, tiendas, vehiculos, tiendasOrdenadas, rutasOptimizadas,
                 metricas, response>>
  /\ UNCHANGED <<varsEscenarios, varsUI>>

\* a test that leaves the demand out
CabeSinDemanda(ruta, d) == ruta.capacidad_usada <= ruta.capacidad_maxima

\* a test with < where the code has <=
CabeEstricto(ruta, d) == ruta.capacidad_usada + d < ruta.capacidad_maxima

\* the test of the inner loop: capacidad_usada + combis_promedio <= capacidad_maxima
Cabe(ruta, d) == ruta.capacidad_usada + d <= ruta.capacidad_maxima

\* the body of the if with = where the code has +=
ActualizadaSinAcumular(ruta, i, d) ==
  [ruta EXCEPT
     !.tiendas = Append(@, i),
     !.capacidad_usada = d,
     !.eficiencia = JSMul(JSDiv(Num(d), Num(ruta.capacidad_maxima)), Num(100))]

\* the body of the if with eficiencia computed before the load is added
ActualizadaEficienciaAntes(ruta, i, d) ==
  [ruta EXCEPT
     !.tiendas = Append(@, i),
     !.capacidad_usada = @ + d,
     !.eficiencia = JSMul(JSDiv(Num(ruta.capacidad_usada),
                                Num(ruta.capacidad_maxima)),
                          Num(100))]

\* the body of the if: push, add the load, recompute eficiencia
Actualizada(ruta, i, d) ==
  [ruta EXCEPT
     !.tiendas = Append(@, i),
     !.capacidad_usada = @ + d,
     !.eficiencia = JSMul(JSDiv(Num(ruta.capacidad_usada + d),
                                Num(ruta.capacidad_maxima)),
                          Num(100))]

\* the inner loop without its break: every bin whose test passes takes the tienda
ColocarSinBreak(rs, i, d) ==
  [x \in 1..Len(rs) |-> IF Cabe(rs[x], d) THEN Actualizada(rs[x], i, d) ELSE rs[x]]

\* the inner loop taking the last bin whose test passes
ColocarUltimoAjuste(rs, i, d) ==
  LET caben == {j \in 1..Len(rs) : Cabe(rs[j], d)}
      u == IF caben = {} THEN 0 ELSE CHOOSE j \in caben : \A h \in caben : h <= j
  IN [x \in 1..Len(rs) |-> IF x = u THEN Actualizada(rs[x], i, d) ELSE rs[x]]

\* best fit: the bin whose test passes with the least room left, the first of them
ColocarMejorAjuste(rs, i, d) ==
  LET caben == {j \in 1..Len(rs) : Cabe(rs[j], d)}
      resto(j) == rs[j].capacidad_maxima - rs[j].capacidad_usada
      m == IF caben = {} THEN 0
           ELSE CHOOSE j \in caben :
                  \A h \in caben : resto(j) < resto(h) \/ (resto(j) = resto(h) /\ j <= h)
  IN [x \in 1..Len(rs) |-> IF x = m THEN Actualizada(rs[x], i, d) ELSE rs[x]]

\* for (let ruta of rutas) { if (...) { ...; break; } }: the first position
\* whose test passes, 0 when the loop runs to its end
PrimerAjuste(rs, d) ==
  IF \E j \in 1..Len(rs) : Cabe(rs[j], d)
  THEN CHOOSE j \in 1..Len(rs) :
         /\ Cabe(rs[j], d)
         /\ \A h \in 1..(j - 1) : ~Cabe(rs[h], d)
  ELSE 0

\* one iteration of the forEach for tienda i with demand d
Colocar(rs, i, d) ==
  LET j == PrimerAjuste(rs, d)
  IN [x \in 1..Len(rs) |-> IF x = j THEN Actualizada(rs[x], i, d) ELSE rs[x]]

\* the return without its filter
RutasSinFiltrar(rs) == rs

\* rutas.filter(ruta => ruta.tiendas.length > 0)
RutasNoVacias(rs) == SelectSeq(rs, LAMBDA r : Len(r.tiendas) > 0)

RECURSIVE AsignarDesde(_, _, _, _)
\* tiendasOrdenadas.forEach(...) from position n of the order on
AsignarDesde(rs, orden, t, n) ==
  IF n > Len(orden) THEN rs
  ELSE AsignarDesde(Colocar(rs, orden[n], t[orden[n]]), orden, t, n + 1)

\* the whole function, as one value: what a call with (t, vs) returns
optimizarRutasBasico(t, vs) ==
  RutasNoVacias(AsignarDesde(InicializarRutasDe(vs), Ordenar(t), t, 1))

AsignarTienda ==
  /\ pc = "asignar"
  /\ k <= Len(tiendasOrdenadas)
  /\ LET i == tiendasOrdenadas[k]
     IN /\ rutas' = Colocar(rutas, i, tiendas[i])
        /\ cargaVista' = [cargaVista EXCEPT
                            ![i] = [j \in 1..Len(rutas) |-> rutas[j].capacidad_usada]]
  /\ k' = k + 1
  /\ UNCHANGED <<modo, tiendas, vehiculos, pc, tiendasOrdenadas, rutasOptimizadas,
                 metricas, response>>
  /\ UNCHANGED <<varsEscenarios, varsUI>>

FiltrarRutas ==
  /\ pc = "asignar"
  /\ k > Len(tiendasOrdenadas)
  /\ rutasOptimizadas' = RutasNoVacias(rutas)
  /\ pc' = "metricas"
  /\ UNCHANGED <<modo, tiendas, vehiculos, tiendasOrdenadas, rutas, k, cargaVista,
                 metricas, response>>
  /\ UNCHANGED <<varsEscenarios, varsUI>>

\* ------------------------------------------------------ calcularMetricas
RECURSIVE Suma(_)
\* xs.reduce((sum, x) => sum + x, 0)
Suma(xs) == IF xs = <<>> THEN 0 ELSE Head(xs) + Suma(Tail(xs))

TotalCapacidad(rs) == Suma([j \in 1..Len(rs) |-> rs[j].capacidad_maxima])

CapacidadUsada(rs) == Suma([j \in 1..Len(rs) |-> rs[j].capacidad_usada])

\* counting the bins where the code counts their tiendas
TiendasAsignadasPorRuta(rs) == Len(rs)

TiendasAsignadas(rs) == Suma([j \in 1..Len(rs) |-> Len(rs[j].tiendas)])

\* x > y on JavaScript numbers: false as soon as one side is NaN
Mayor(x, y) ==
  IF x.kind = "NaN" \/ y.kind = "NaN" THEN FALSE
  ELSE IF x.kind = "Infinity" THEN x.num > 0 /\ ~(y.kind = "Infinity" /\ y.num > 0)
  ELSE IF y.kind = "Infinity" THEN y.num < 0
  ELSE x.num * y.den > y.num * x.den

\* Math.round((capacidadUsada / totalCapacidad) * 100)
EficienciaLlenado(rs) ==
  MathRound(JSMul(JSDiv(Num(CapacidadUsada(rs)), Num(TotalCapacidad(rs))), Num(100)))

\* vehiculos_disponibles: rutas.length
VehiculosDisponibles(rs) == Len(rs)

\* Math.max(0, rutas.length - Math.ceil(capacidadUsada / (totalCapacidad / rutas.length)))
AhorroPotencial(rs) ==
  MathMax(Num(0),
          JSSub(Num(Len(rs)),
                MathCeil(JSDiv(Num(CapacidadUsada(rs)),
                               JSDiv(Num(TotalCapacidad(rs)), Num(Len(rs)))))))

calcularMetricas(rs, totalTiendas) ==
  [eficiencia_llenado |-> EficienciaLlenado(rs),
   vehiculos_necesarios |-> Len(rs),
   vehiculos_disponibles |-> VehiculosDisponibles(rs),
   tiendas_asignadas |-> TiendasAsignadas(rs),
   tiendas_totales |-> totalTiendas,
   capacidad_total |-> TotalCapacidad(rs),
   capacidad_usada |-> JSDiv(MathRound(JSMul(Num(CapacidadUsada(rs)), Num(10))), Num(10)),
   ahorro_potencial |-> AhorroPotencial(rs)]

CalcularMetricas ==
  /\ pc = "metricas"
  /\ metricas' = calcularMetricas(rutasOptimizadas, Len(tiendas))
  /\ pc' = IF modo = "endpoint" THEN "responder" ELSE "done"
  /\ UNCHANGED <<modo, tiendas, vehiculos, tiendasOrdenadas, rutas, k, cargaVista,
                 rutasOptimizadas, response>>
  /\ UNCHANGED <<varsEscenarios, varsUI>>

\* --------------------------------------------- app.post('/api/optimizar')
\* the two pool.query calls: the rows arrive, or a query rejects and the
\* catch answers 500
Consultar ==
  /\ pc = "consultar"
  /\ \/ /\ pc' = "validar"
        /\ UNCHANGED response
     \/ /\ response' = [status |-> 500]
        /\ pc' = "done"
  /\ UNCHANGED <<modo, tiendas, vehiculos, tiendasOrdenadas, rutas, k, cargaVista,
                 rutasOptimizadas, metricas>>
  /\ UNCHANGED <<varsEscenarios, varsUI>>

\* if (!vehiculos.length || !tiendas.length) return res.status(400)...
Validar ==
  /\ pc = "validar"
  /\ IF Len(vehiculos) = 0 \/ Len(tiendas) = 0
     THEN /\ response' = [status |-> 400]
          /\ pc' = "done"
     ELSE /\ pc' = "ordenar"
          /\ UNCHANGED response
  /\ UNCHANGED <<modo, tiendas, vehiculos, tiendasOrdenadas, rutas, k, cargaVista,
                 rutasOptimizadas, metricas>>
  /\ UNCHANGED <<varsEscenarios, varsUI>>

\* res.json({ rutas, metricas, proveedor_id, timestamp })
Responder ==
  /\ pc = "responder"
  /\ response' = [status |-> 200, rutas |-> rutasOptimizadas, metricas |-> metricas]
  /\ pc' = "done"
  /\ UNCHANGED <<modo, tiendas, vehiculos, tiendasOrdenadas, rutas, k, cargaVista,
                 rutasOptimizadas, metricas>>
  /\ UNCHANGED <<varsEscenarios, varsUI>>

Next ==
  \/ OrdenarTiendas
  \/ InicializarRutas
  \/ AsignarTienda
  \/ FiltrarRutas
  \/ CalcularMetricas
  \/ Consultar
  \/ Validar
  \/ Responder

Spec == Init /\ [][Next]_vars

\* -------------------------------------------- escenarios: create, activate
\* no call of the optimisation is under way
OptimizarEnReposo ==
  /\ modo = "funcion"
  /\ tiendas = <<>>
  /\ vehiculos = <<>>
  /\ pc = "reposo"
  /\ tiendasOrdenadas = <<>>
  /\ rutas = <<>>
  /\ k = 1
  /\ cargaVista = <<>>
  /\ rutasOptimizadas = <<>>
  /\ metricas = SinMetricas
  /\ response = SinRespuesta

InitEscenarios == OptimizarEnReposo /\ EscenariosEnReposo /\ UIEnReposo

\* UPDATE escenarios SET activo = false
TodosInactivos(es) == [e \in 1..Len(es) |-> FALSE]

\* UPDATE escenarios SET activo = true WHERE id = $1
ConActivo(es, id) == [e \in 1..Len(es) |-> IF e = id THEN TRUE ELSE es[e]]

\* app.post('/api/escenarios'): one INSERT with activo = false; a rejected
\* query inserts nothing
CrearEscenario ==
  /\ Len(escenarios) < MaxEscenarios
  /\ escenarios' = Append(escenarios, FALSE)
  /\ UNCHANGED <<peticiones, varsOptimizar, varsUI>>

\* a PUT /api/escenarios/:id/activar arrives; id need not be a row
RecibirActivar(r) ==
  /\ peticiones[r].pc = "libre"
  /\ \E id \in 1..MaxEscenarios :
       peticiones' = [peticiones EXCEPT ![r] = [pc |-> "desactivar", id |-> id, status |-> 0]]
  /\ UNCHANGED <<escenarios, varsOptimizar, varsUI>>

\* await pool.query('UPDATE escenarios SET activo = false'), or it rejects and
\* the catch answers 500
DesactivarTodos(r) ==
  /\ peticiones[r].pc = "desactivar"
  /\ \/ /\ escenarios' = TodosInactivos(escenarios)
        /\ peticiones' = [peticiones EXCEPT ![r].pc = "activar"]
     \/ /\ peticiones' = [peticiones EXCEPT ![r].pc = "hecha", ![r].status = 500]
        /\ UNCHANGED escenarios
  /\ UNCHANGED <<varsOptimizar, varsUI>>

\* await pool.query('UPDATE ... SET activo = true WHERE id = $1 RETURNING *')
\* and res.json, or the query rejects and the catch answers 500
ActivarSeleccionado(r) ==
  /\ peticiones[r].pc = "activar"
  /\ \/ /\ escenarios' = ConActivo(escenarios, peticiones[r].id)
        /\ peticiones' = [peticiones EXCEPT ![r].pc = "hecha", ![r].status = 200]
     \/ /\ peticiones' = [peticiones EXCEPT ![r].pc = "hecha", ![r].status = 500]
        /\ UNCHANGED escenarios
  /\ UNCHANGED <<varsOptimizar, varsUI>>

NextEscenarios ==
  \/ CrearEscenario
  \/ \E r \in 1..MaxPeticiones : RecibirActivar(r)
  \/ \E r \in 1..MaxPeticiones : DesactivarTodos(r)
  \/ \E r \in 1..MaxPeticiones : ActivarSeleccionado(r)

SpecEscenarios == InitEscenarios /\ [][NextEscenarios]_vars

\* ------------------------------------------------ the UI's async functions
\* what the response.json() of POST /api/optimizar can resolve to
Datos == 1..MaxDatos

\* a call is under way in slot o
EnCurso(o) == operaciones[o].pc # "libre"

\* a new call takes the first slot that is free
PrimeraLibre(o) ==
  /\ ~EnCurso(o)
  /\ \A p \in 1..(o - 1) : EnCurso(p)

\* a call in a slot: tipo is the function called from outside, llamada the
\* function whose await is pending, pc the await
Llamada(tipo, llamada, espera) == [tipo |-> tipo, pc |-> espera, llamada |-> llamada]

\* optimizarRutas whose finally is missing: setLoading(false) is the last
\* statement of the try
TrasOptimizarRutasSinFinally(exito, dato, resultado, cargando) ==
  [optimizationResult |-> IF exito THEN dato ELSE resultado,
   loading |-> IF exito THEN FALSE ELSE cargando]

\* optimizarRutas after await apiCall: setOptimizationResult(result) when it
\* resolved, the catch when it rejected, then finally setLoading(false)
TrasOptimizarRutas(exito, dato, resultado, cargando) ==
  [optimizationResult |-> IF exito THEN dato ELSE resultado,
   loading |-> FALSE]

\* onChange of the file input: setUploadFile(e.target.files[0]), a file or
\* undefined
SeleccionarArchivo ==
  /\ uploadFile' = ~uploadFile
  /\ UNCHANGED <<loading, optimizationResult, error, uploadResult, proveedores,
                 vehiculosUI, operaciones, ultima>>
  /\ UNCHANGED <<varsOptimizar, varsEscenarios>>

\* onClose of ErrorAlert: setError(null)
CerrarError ==
  /\ error # "null"
  /\ error' = "null"
  /\ UNCHANGED <<loading, optimizationResult, uploadFile, uploadResult, proveedores,
                 vehiculosUI, operaciones, ultima>>
  /\ UNCHANGED <<varsOptimizar, varsEscenarios>>

\* loadProveedores() is called (the mount effect): setLoading(true) and apiCall
\* up to its await fetch
LlamarLoadProveedores(o) ==
  /\ PrimeraLibre(o)
  /\ loading' = TRUE
  /\ operaciones' = [operaciones EXCEPT ![o] = Llamada("loadProveedores", "loadProveedores", "apiCall")]
  /\ UNCHANGED <<optimizationResult, error, uploadFile, uploadResult, proveedores,
                 vehiculosUI, ultima>>
  /\ UNCHANGED <<varsOptimizar, varsEscenarios>>

\* optimizarRutas(proveedorId) is called: setLoading(true) and apiCall up to its
\* await fetch. The function does not read loading
LlamarOptimizarRutas(o) ==
  /\ PrimeraLibre(o)
  /\ loading' = TRUE
  /\ operaciones' = [operaciones EXCEPT ![o] = Llamada("optimizarRutas", "optimizarRutas", "apiCall")]
  /\ UNCHANGED <<optimizationResult, error, uploadFile, uploadResult, proveedores,
                 vehiculosUI, ultima>>
  /\ UNCHANGED <<varsOptimizar, varsEscenarios>>

\* handleFileUpload() is called: it returns at once without a file; with one,
\* setLoading(true) and up to await fetch of /api/import/excel
LlamarHandleFileUpload(o) ==
  /\ PrimeraLibre(o)
  /\ uploadFile
  /\ loading' = TRUE
  /\ operaciones' = [operaciones EXCEPT ![o] = Llamada("handleFileUpload", "handleFileUpload", "subir")]
  /\ UNCHANGED <<optimizationResult, error, uploadFile, uploadResult, proveedores,
                 vehiculosUI, ultima>>
  /\ UNCHANGED <<varsOptimizar, varsEscenarios>>

\* the catch of apiCall: fetch rejected, or the response is not ok, or its body
\* is not JSON; setError(error.message) and the error is thrown again
ApiCallRechaza(o) ==
  /\ operaciones[o].pc = "apiCall"
  /\ error' = "message"
  /\ operaciones' = [operaciones EXCEPT ![o].pc = "rechazada"]
  /\ UNCHANGED <<loading, optimizationResult, uploadFile, uploadResult, proveedores,
                 vehiculosUI, ultima>>
  /\ UNCHANGED <<varsOptimizar, varsEscenarios>>

\* optimizarRutas resumes after await apiCall, which returned the parsed body
\* or threw
OptimizarRutasSigue(o) ==
  /\ operaciones[o].llamada = "optimizarRutas"
  /\ \E exito \in BOOLEAN, d \in Datos :
       /\ operaciones[o].pc = IF exito THEN "apiCall" ELSE "rechazada"
       /\ LET tras == TrasOptimizarRutas(exito, d, optimizationResult, loading)
          IN  /\ optimizationResult' = tras.optimizationResult
              /\ loading' = tras.loading
       /\ ultima' = IF exito THEN "resuelta" ELSE "rechazada"
  /\ operaciones' = [operaciones EXCEPT ![o] = OperacionLibre]
  /\ UNCHANGED <<error, uploadFile, uploadResult, proveedores, vehiculosUI>>
  /\ UNCHANGED <<varsOptimizar, varsEscenarios>>

\* loadProveedores resumes after await apiCall: setProveedores(data) when it
\* returned, the catch when it threw, then finally setLoading(false); called
\* by handleFileUpload, its caller's await is pending next
LoadProveedoresSigue(o) ==
  /\ operaciones[o].llamada = "loadProveedores"
  /\ \E exito \in BOOLEAN :
       /\ operaciones[o].pc = IF exito THEN "apiCall" ELSE "rechazada"
       /\ proveedores' = (exito \/ proveedores)
  /\ operaciones' = [operaciones EXCEPT ![o] = IF operaciones[o].tipo = "loadProveedores"
                                                THEN OperacionLibre
                                                ELSE [operaciones[o] EXCEPT !.pc = "vuelta"]]
  /\ loading' = FALSE
  /\ UNCHANGED <<optimizationResult, error, uploadFile, uploadResult, vehiculosUI, ultima>>
  /\ UNCHANGED <<varsOptimizar, varsEscenarios>>

\* handleFileUpload after await fetch and await response.json(), whatever the
\* status of the response: setUploadResult(result) and loadVehiculos() is
\* called, up to the await fetch of its apiCall; or fetch rejected or the body
\* is not JSON: the catch, then finally setLoading(false)
Subir(o) ==
  /\ operaciones[o].pc = "subir"
  /\ \/ /\ uploadResult' = TRUE
        /\ operaciones' = [operaciones EXCEPT ![o].pc = "apiCall", ![o].llamada = "loadVehiculos"]
        /\ UNCHANGED loading
     \/ /\ loading' = FALSE
        /\ operaciones' = [operaciones EXCEPT ![o] = OperacionLibre]
        /\ UNCHANGED uploadResult
  /\ UNCHANGED <<optimizationResult, error, uploadFile, proveedores, vehiculosUI, ultima>>
  /\ UNCHANGED <<varsOptimizar, varsEscenarios>>

\* loadVehiculos resumes after await apiCall: setVehiculos(data) when it
\* returned, the catch when it threw; it does not touch loading
LoadVehiculosSigue(o) ==
  /\ operaciones[o].llamada = "loadVehiculos"
  /\ \/ /\ operaciones[o].pc = "apiCall"
        /\ vehiculosUI' = TRUE
     \/ /\ operaciones[o].pc = "rechazada"
        /\ UNCHANGED vehiculosUI
  /\ operaciones' = [operaciones EXCEPT ![o].pc = "vuelta"]
  /\ UNCHANGED <<loading, optimizationResult, error, uploadFile, uploadResult, proveedores,
                 ultima>>
  /\ UNCHANGED <<varsOptimizar, varsEscenarios>>

\* handleFileUpload resumes after await loadVehiculos(): loadProveedores() is
\* called, setLoading(true) and up to the await fetch of its apiCall; after
\* await loadProveedores(): finally setLoading(false)
HandleFileUploadSigue(o) ==
  /\ operaciones[o].pc = "vuelta"
  /\ \/ /\ operaciones[o].llamada = "loadVehiculos"
        /\ loading' = TRUE
        /\ operaciones' = [operaciones EXCEPT ![o].pc = "apiCall", ![o].llamada = "loadProveedores"]
     \/ /\ operaciones[o].llamada = "loadProveedores"
        /\ loading' = FALSE
        /\ operaciones' = [operaciones EXCEPT ![o] = OperacionLibre]
  /\ UNCHANGED <<optimizationResult, error, uploadFile, uploadResult, proveedores, vehiculosUI,
                 ultima>>
  /\ UNCHANGED <<varsOptimizar, varsEscenarios>>

\* the steps the event loop takes for the call in slot o once its awaited
\* promise settles
Avanzar(o) ==
  \/ ApiCallRechaza(o)
  \/ OptimizarRutasSigue(o)
  \/ LoadProveedoresSigue(o)
  \/ Subir(o)
  \/ LoadVehiculosSigue(o)
  \/ HandleFileUploadSigue(o)

InitUI == OptimizarEnReposo /\ EscenariosEnReposo /\ UIEnReposo

NextUI ==
  \/ SeleccionarArchivo
  \/ CerrarError
  \/ \E o \in 1..MaxOperaciones : LlamarLoadProveedores(o)
  \/ \E o \in 1..MaxOperaciones : LlamarOptimizarRutas(o)
  \/ \E o \in 1..MaxOperaciones : LlamarHandleFileUpload(o)
  \/ \E o \in 1..MaxOperaciones : Avanzar(o)

\* every awaited request settles, resolved or rejected, and the event loop
\* then runs the continuation
SpecUI ==
  /\ InitUI
  /\ [][NextUI]_vars
  /\ \A o \in 1..MaxOperaciones : WF_vars(Avanzar(o))

TypeOK ==
  /\ modo \in {"funcion", "endpoint"}
  /\ pc \in {"consultar", "validar", "ordenar", "inicializar", "asignar", "metricas",
             "responder", "done"}
  /\ k \in 1..(Len(tiendas) + 1)
  /\ Len(rutas) \in {0, Len(vehiculos)}

\* ------------------------------------------------------------ the claims
\* optimizarRutasBasico has returned
Devuelto == pc = "metricas" \/ "pendiente" \notin DOMAIN metricas

\* calcularMetricas has returned
MetricasListas == "pendiente" \notin DOMAIN metricas

\* the (bin, slot) pairs of a list of bins
Huecos(rs) ==
  UNION {{<<j, p>> : p \in 1..Len(rs[j].tiendas)} : j \in 1..Len(rs)}

\* tienda i is in no bin of the result
Ausente(i) == \A h \in Huecos(rutasOptimizadas) : rutasOptimizadas[h[1]].tiendas[h[2]] # i

\* when tienda i was considered, every bin had used + demand > capacity
NingunaCabia(i) ==
  /\ Len(cargaVista[i]) = Len(vehiculos)
  /\ \A j \in 1..Len(vehiculos) : cargaVista[i][j] + tiendas[i] > vehiculos[j]

\* C1: every bin's used load is at most its capacity, after every placement
\* step of the run and in the returned bins
C1_CapacidadRespetada ==
  /\ \A j \in 1..Len(rutas) : rutas[j].capacidad_usada <= rutas[j].capacidad_maxima
  /\ \A j \in 1..Len(rutasOptimizadas) :
       rutasOptimizadas[j].capacidad_usada <= rutasOptimizadas[j].capacidad_maxima

\* a bin filled to its capacity by two tiendas of positive demand, and a
\* third tienda, small enough for the empty bin, that no longer fitted
C1_Witness ==
  /\ Devuelto
  /\ \E j \in 1..Len(rutasOptimizadas) :
       /\ Len(rutasOptimizadas[j].tiendas) >= 2
       /\ \A p \in 1..Len(rutasOptimizadas[j].tiendas) :
            tiendas[rutasOptimizadas[j].tiendas[p]] > 0
       /\ rutasOptimizadas[j].capacidad_usada = rutasOptimizadas[j].capacidad_maxima
       /\ \E i \in 1..Len(tiendas) :
            Ausente(i) /\ tiendas[i] <= rutasOptimizadas[j].capacidad_maxima

\* C2: each position of the input demand list is in at most one slot of the
\* returned bins: at most one bin, at most once in it
C2_SinDuplicados ==
  \A i \in 1..Len(tiendas) :
    Cardinality({h \in Huecos(rutasOptimizadas) :
                   rutasOptimizadas[h[1]].tiendas[h[2]] = i}) <= 1

\* two returned bins, one of them with two tiendas, where the tienda of the
\* second bin would have fitted the first bin when the first bin was empty
C2_Witness ==
  /\ Devuelto
  /\ Len(rutasOptimizadas) = 2
  /\ Cardinality(Huecos(rutasOptimizadas)) = 3
  /\ \A i \in 1..Len(tiendas) : tiendas[i] > 0 /\ tiendas[i] <= vehiculos[1]

\* C3: after the run every tienda was considered; a tienda is in no returned
\* bin exactly when no bin had room for it at the moment it was considered;
\* with no capacity unit, or no tienda that had room, the result is empty
C3_AusenteSiiNoCabia ==
  Devuelto =>
    /\ k = Len(tiendas) + 1
    /\ \A i \in 1..Len(tiendas) : Ausente(i) <=> NingunaCabia(i)
    /\ (Len(vehiculos) = 0 \/ \A i \in 1..Len(tiendas) : NingunaCabia(i))
         => rutasOptimizadas = <<>>

\* a run that dropped one tienda and placed a later one, filling a bin exactly
C3_Witness ==
  /\ Devuelto
  /\ \E a, b \in 1..Len(tiendas) :
       /\ Ausente(a)
       /\ ~Ausente(b)
       /\ tiendas[b] > 0
       /\ \E j \in 1..Len(vehiculos) : cargaVista[b][j] + tiendas[b] = vehiculos[j]

\* C4: the returned bins are exactly the bins that received a tienda, each as
\* it stood at the end of the run, in the order of their capacity units
C4_SoloRutasConTiendas ==
  Devuelto =>
    /\ {rutasOptimizadas[p].vehiculo_id : p \in 1..Len(rutasOptimizadas)}
         = {j \in 1..Len(rutas) : Len(rutas[j].tiendas) > 0}
    /\ \A p \in 1..Len(rutasOptimizadas) :
         rutasOptimizadas[p] = rutas[rutasOptimizadas[p].vehiculo_id]
    /\ \A p, q \in 1..Len(rutasOptimizadas) :
         p < q => rutasOptimizadas[p].vehiculo_id < rutasOptimizadas[q].vehiculo_id

\* the first capacity unit stayed empty and was dropped, the second was returned
C4_Witness ==
  /\ Devuelto
  /\ Len(vehiculos) = 2
  /\ Len(rutasOptimizadas) = 1
  /\ rutasOptimizadas[1].vehiculo_id = 2
  /\ vehiculos[1] > 0

\* C6: the fill rate is 0 whenever the capacities of the bins given to
\* calcularMetricas sum to 0
C6_FillRateCeroSinCapacidad ==
  (MetricasListas /\ TotalCapacidad(rutasOptimizadas) = 0)
    => metricas.eficiencia_llenado = Num(0)

\* C7: a bin of capacity 0 that received a tienda has eficiencia 0
C7_EficienciaCeroSinCapacidad ==
  \A j \in 1..Len(rutas) :
    (rutas[j].capacidad_maxima = 0 /\ Len(rutas[j].tiendas) > 0)
      => rutas[j].eficiencia = Num(0)

\* C8: vehiculos_disponibles is the number of capacity units supplied
C8_DisponiblesCuentaTodos ==
  MetricasListas => metricas.vehiculos_disponibles = Len(vehiculos)

\* C9: tiendas_asignadas is the number of slots of the returned bins,
\* tiendas_totales is the length of the demand list, the first is between 0
\* and the second, and their difference is the number of tiendas in no bin
C9_ConteoTiendas ==
  MetricasListas =>
    /\ metricas.tiendas_asignadas = Cardinality(Huecos(rutasOptimizadas))
    /\ metricas.tiendas_totales = Len(tiendas)
    /\ 0 <= metricas.tiendas_asignadas
    /\ metricas.tiendas_asignadas <= metricas.tiendas_totales
    /\ metricas.tiendas_totales - metricas.tiendas_asignadas
         = Cardinality({i \in 1..Len(tiendas) : Ausente(i)})

\* one bin of two tiendas, and a tienda left out
C9_Witness ==
  /\ MetricasListas
  /\ metricas.tiendas_asignadas >= 2
  /\ metricas.tiendas_asignadas < metricas.tiendas_totales
  /\ \E j \in 1..Len(rutasOptimizadas) : Len(rutasOptimizadas[j].tiendas) >= 2
  /\ \A i \in 1..Len(tiendas) : tiendas[i] > 0

\* C10: a request with a non-empty demand list never ends in a success
\* response that carries zero routes
C10_InfactibleEsError ==
  (modo = "endpoint" /\ pc = "done" /\ Len(tiendas) > 0 /\ response.status = 200)
    => Len(response.rutas) > 0

\* C11: with at least one capacity unit, every tienda of demand 0 is in the
\* first bin of the run, and so in the first returned bin, which is the bin
\* of the first capacity unit
C11_DemandaCeroEnPrimera ==
  (Devuelto /\ Len(vehiculos) > 0) =>
    \A i \in 1..Len(tiendas) :
      tiendas[i] = 0 =>
        /\ \E p \in 1..Len(rutas[1].tiendas) : rutas[1].tiendas[p] = i
        /\ rutasOptimizadas[1].vehiculo_id = 1
        /\ \E p \in 1..Len(rutasOptimizadas[1].tiendas) :
             rutasOptimizadas[1].tiendas[p] = i

\* a tienda of demand 0 that went into the first bin when that bin was
\* already filled to its positive capacity
C11_Witness ==
  /\ Devuelto
  /\ Len(vehiculos) = 2
  /\ \E i \in 1..Len(tiendas) :
       /\ tiendas[i] = 0
       /\ cargaVista[i][1] = vehiculos[1]
       /\ vehiculos[1] > 0
       /\ \E p \in 1..Len(rutasOptimizadas[1].tiendas) :
            rutasOptimizadas[1].tiendas[p] = i

\* the run of the actions returns what the function, taken as one value, returns
FuncionCoincide ==
  Devuelto => rutasOptimizadas = optimizarRutasBasico(tiendas, vehiculos)

\* the demand list t without its position i
Quitar(t, i) == SubSeq(t, 1, i - 1) \o SubSeq(t, i + 1, Len(t))

\* the position in the original list of position p of Quitar(t, i)
PosicionOriginal(p, i) == IF p < i THEN p ELSE p + 1

\* the bins a re-run returns for the demand list without position i
SinTienda(i) == optimizarRutasBasico(Quitar(tiendas, i), vehiculos)

\* the capacity units of the bins of rs
Unidades(rs) == {rs[j].vehiculo_id : j \in 1..Len(rs)}

\* every tienda the re-run without i assigned was assigned by the original run
NadaNuevo(i) ==
  \A h \in Huecos(SinTienda(i)) :
    ~Ausente(PosicionOriginal(SinTienda(i)[h[1]].tiendas[h[2]], i))

\* C12 as stated: removing any one assigned tienda and re-running gives a
\* fill rate that is not greater than the fill rate of the original run
C12_FillRateMonotono ==
  MetricasListas =>
    \A i \in 1..Len(tiendas) :
      ~Ausente(i) =>
        ~Mayor(EficienciaLlenado(SinTienda(i)), metricas.eficiencia_llenado)

\* C12 as amended: removing one assigned tienda and re-running gives a fill
\* rate that is not greater, provided the re-run returns bins of the same
\* capacity units and assigns no tienda that the original run left out
C12_FillRateMonotonoMismasRutas ==
  MetricasListas =>
    \A i \in 1..Len(tiendas) :
      (/\ ~Ausente(i)
       /\ Unidades(SinTienda(i)) = Unidades(rutasOptimizadas)
       /\ NadaNuevo(i))
        => ~Mayor(EficienciaLlenado(SinTienda(i)), metricas.eficiencia_llenado)

\* an assigned tienda of positive demand whose removal leaves the same
\* capacity units in use, brings no new tienda in and lowers the fill rate,
\* in a run that left another tienda out
C12_Witness ==
  /\ MetricasListas
  /\ \E i \in 1..Len(tiendas) :
       /\ ~Ausente(i)
       /\ tiendas[i] > 0
       /\ Unidades(SinTienda(i)) = Unidades(rutasOptimizadas)
       /\ NadaNuevo(i)
       /\ Mayor(metricas.eficiencia_llenado, EficienciaLlenado(SinTienda(i)))
  /\ \E a \in 1..Len(tiendas) : Ausente(a)

\* C13: no step of optimizarRutasBasico or calcularMetricas changes the demand
\* list or the capacity list it was given, calcularMetricas leaves the bins it
\* was given as they are, and a direct call writes nothing besides its results
C13_ArgumentosIntactos ==
  [][/\ tiendas' = tiendas
     /\ vehiculos' = vehiculos
     /\ (pc = "metricas" => rutasOptimizadas' = rutasOptimizadas)
     /\ (modo = "funcion" => response' = response)]_vars

\* a finished call on a demand list that the sort had to reorder, with bins
\* returned and scored
C13_Witness ==
  /\ MetricasListas
  /\ ~OrdenDesc(tiendas)
  /\ Len(rutasOptimizadas) > 0
  /\ tiendasOrdenadas # [p \in 1..Len(tiendas) |-> p]

\* C14: demands [8,5,5,2] on capacities [10,10] give the first bin the tiendas
\* of demand 8 then 2 (positions 1, 4) with used 10, the second bin the two
\* tiendas of demand 5 (positions 2, 3) with used 10, fill rate 100, two
\* vehicles used and four tiendas assigned
C14_EjemploDosRutas ==
  (MetricasListas /\ tiendas = <<8, 5, 5, 2>> /\ vehiculos = <<10, 10>>) =>
    /\ Len(rutasOptimizadas) = 2
    /\ rutasOptimizadas[1].vehiculo_id = 1
    /\ rutasOptimizadas[1].tiendas = <<1, 4>>
    /\ rutasOptimizadas[1].capacidad_usada = 10
    /\ rutasOptimizadas[2].vehiculo_id = 2
    /\ rutasOptimizadas[2].tiendas = <<2, 3>>
    /\ rutasOptimizadas[2].capacidad_usada = 10
    /\ metricas.eficiencia_llenado = Num(100)
    /\ metricas.vehiculos_necesarios = 2
    /\ metricas.tiendas_asignadas = 4
    /\ metricas.tiendas_totales = 4

\* the call on that input has returned and was scored
C14_Witness ==
  /\ MetricasListas
  /\ pc = "done"
  /\ tiendas = <<8, 5, 5, 2>>
  /\ vehiculos = <<10, 10>>
  /\ Len(rutasOptimizadas) = 2

\* C15: at every step, a tienda that is in the bin at position j fitted that
\* bin at the moment it was considered, fitted no bin at a position before j
\* at that moment, and is in no other slot of any bin
C15_PrimerAjuste ==
  \A h \in Huecos(rutas) :
    LET j == h[1]
        i == rutas[j].tiendas[h[2]]
    IN /\ Len(cargaVista[i]) = Len(vehiculos)
       /\ cargaVista[i][j] + tiendas[i] <= vehiculos[j]
       /\ \A x \in 1..(j - 1) : cargaVista[i][x] + tiendas[i] > vehiculos[x]
       /\ \A g \in Huecos(rutas) : rutas[g[1]].tiendas[g[2]] = i => g = h

\* a tienda that went to the second bin although the first bin still had
\* room, only not enough for it, and a later tienda that did go to the first
C15_Witness ==
  /\ Devuelto
  /\ Len(rutas) = 2
  /\ \E p \in 1..Len(rutas[2].tiendas) :
       LET i == rutas[2].tiendas[p]
       IN /\ cargaVista[i][1] > 0
          /\ cargaVista[i][1] < vehiculos[1]
          /\ rutas[1].capacidad_usada > cargaVista[i][1]

\* the sort of optimizarRutasBasico has run
Ordenadas ==
  pc \in {"inicializar", "asignar", "metricas", "responder"} \/ MetricasListas

\* position a of the demand list is considered before position b: larger
\* demand first, among equal demands the earlier position first
Antes(a, b) ==
  tiendas[a] > tiendas[b] \/ (tiendas[a] = tiendas[b] /\ a < b)

\* C16: the order of consideration holds every position of the demand list
\* once, by demand descending and, among equal demands, in input order; at
\* every step the tiendas of each bin are in that same order
C16_OrdenDescendenteEstable ==
  /\ Ordenadas =>
       /\ Len(tiendasOrdenadas) = Len(tiendas)
       /\ {tiendasOrdenadas[p] : p \in 1..Len(tiendasOrdenadas)} = 1..Len(tiendas)
       /\ \A p, q \in 1..Len(tiendasOrdenadas) :
            p < q => Antes(tiendasOrdenadas[p], tiendasOrdenadas[q])
  /\ \A j \in 1..Len(rutas) :
       \A p, q \in 1..Len(rutas[j].tiendas) :
         p < q => Antes(rutas[j].tiendas[p], rutas[j].tiendas[q])

\* a demand list that is not sorted, whose largest demand comes last, and a
\* returned bin that holds two tiendas of equal demand behind a larger one
C16_Witness ==
  /\ Devuelto
  /\ ~OrdenDesc(tiendas)
  /\ \E j \in 1..Len(rutasOptimizadas) :
       LET ts == rutasOptimizadas[j].tiendas
       IN /\ Len(ts) = 3
          /\ tiendas[ts[1]] > tiendas[ts[2]]
          /\ tiendas[ts[2]] = tiendas[ts[3]]
          /\ ts[1] > ts[2]

\* s is an initial part of t
EsPrefijo(s, t) == Len(s) <= Len(t) /\ SubSeq(t, 1, Len(s)) = s

\* C17: the step that builds the bins leaves every bin with used load 0 and no
\* tienda; in every other step each bin's used load does not decrease and its
\* list of tiendas only grows at its end, so no tienda leaves its bin
C17_SinRetroceso ==
  [][IF pc = "inicializar"
     THEN \A j \in 1..Len(rutas') :
            rutas'[j].capacidad_usada = 0 /\ rutas'[j].tiendas = <<>>
     ELSE /\ Len(rutas') = Len(rutas)
          /\ \A j \in 1..Len(rutas) :
               /\ rutas'[j].capacidad_usada >= rutas[j].capacidad_usada
               /\ EsPrefijo(rutas[j].tiendas, rutas'[j].tiendas)]_vars

\* a bin that took a tienda of positive demand behind a larger one, and
\* another bin that took a tienda in between or after
C17_Witness ==
  /\ Devuelto
  /\ Len(rutasOptimizadas) = 2
  /\ \E j \in 1..2 :
       LET ts == rutasOptimizadas[j].tiendas
       IN /\ Len(ts) >= 2
          /\ tiendas[ts[1]] > tiendas[ts[2]]
          /\ tiendas[ts[2]] > 0

\* x rounded to one decimal place: Math.round(x * 10) / 10
UnDecimal(x) == JSDiv(MathRound(JSMul(x, Num(10))), Num(10))

\* C18 as stated: every returned bin of positive capacity has eficiencia equal
\* to 100 * used / capacity rounded to one decimal place
C18_EficienciaRedondeada ==
  \A j \in 1..Len(rutasOptimizadas) :
    rutasOptimizadas[j].capacidad_maxima > 0 =>
      rutasOptimizadas[j].eficiencia
        = UnDecimal(Rat(100 * rutasOptimizadas[j].capacidad_usada,
                        rutasOptimizadas[j].capacidad_maxima))

\* C18 as amended: every returned bin of positive capacity has eficiencia equal
\* to (used / capacity) * 100 with no rounding applied
C18_EficienciaSinRedondear ==
  \A j \in 1..Len(rutasOptimizadas) :
    rutasOptimizadas[j].capacidad_maxima > 0 =>
      rutasOptimizadas[j].eficiencia
        = Rat(100 * rutasOptimizadas[j].capacidad_usada,
              rutasOptimizadas[j].capacidad_maxima)

\* a returned bin of capacity 3 with used load 1: its eficiencia is 100/3,
\* which one decimal place cannot hold
C18_Witness ==
  /\ Devuelto
  /\ \E j \in 1..Len(rutasOptimizadas) :
       /\ rutasOptimizadas[j].capacidad_maxima = 3
       /\ rutasOptimizadas[j].capacidad_usada = 1
       /\ rutasOptimizadas[j].eficiencia = Rat(100, 3)
       /\ rutasOptimizadas[j].eficiencia # UnDecimal(Rat(100, 3))

\* the demands of a list of positions of the demand list, added up
DemandaDe(ts) == Suma([p \in 1..Len(ts) |-> tiendas[ts[p]]])

\* C19: at every step each bin's used load is the sum of the demands of the
\* tiendas in its list, and the used load that calcularMetricas adds up over
\* the returned bins is the total demand of the tiendas that are in a bin
C19_UsadaEsSumaDeDemandas ==
  /\ \A j \in 1..Len(rutas) :
       rutas[j].capacidad_usada = DemandaDe(rutas[j].tiendas)
  /\ \A j \in 1..Len(rutasOptimizadas) :
       rutasOptimizadas[j].capacidad_usada = DemandaDe(rutasOptimizadas[j].tiendas)
  /\ MetricasListas =>
       metricas.capacidad_usada
         = Num(Suma([i \in 1..Len(tiendas) |-> IF Ausente(i) THEN 0 ELSE tiendas[i]]))

\* two returned bins of different positive used loads, one of them with two
\* tiendas
C19_Witness ==
  /\ MetricasListas
  /\ Len(rutasOptimizadas) = 2
  /\ rutasOptimizadas[1].capacidad_usada # rutasOptimizadas[2].capacidad_usada
  /\ \A j \in 1..2 : rutasOptimizadas[j].capacidad_usada > 0
  /\ \E j \in 1..2 : Len(rutasOptimizadas[j].tiendas) >= 2

\* the scenarios whose activo flag is set
Activos == {e \in 1..Len(escenarios) : escenarios[e]}

\* no activation request is between its arrival and its answer
SinPeticionesEnCurso ==
  \A r \in 1..MaxPeticiones : peticiones[r].pc \in {"libre", "hecha"}

\* C20: once no activation request is in flight, at most one scenario is active
C20_UnSoloActivo ==
  SinPeticionesEnCurso => Cardinality(Activos) <= 1

\* no call of loadProveedores, optimizarRutas or handleFileUpload is under way
SinOperacionesEnCurso == \A o \in 1..MaxOperaciones : ~EnCurso(o)

\* this step is the return of the call in slot o
Termina(o) == EnCurso(o) /\ operaciones'[o].pc = "libre"

\* this step is one of a failing optimizarRutas in slot o: its apiCall throws,
\* or the call resumes from the rejected await
FallaOptimizarRutas(o) ==
  /\ operaciones[o].llamada = "optimizarRutas"
  /\ \/ operaciones[o].pc = "apiCall" /\ operaciones'[o].pc = "rechazada"
     \/ operaciones[o].pc = "rechazada" /\ operaciones'[o].pc = "libre"

\* C21: every call that set loading to true returns, whether its requests
\* succeed or fail, and the step it returns with sets loading to false; so
\* loading is false whenever no call is under way; and no step of a failing
\* optimizarRutas changes the stored optimizationResult
C21_LoadingVuelveAFalse ==
  /\ [](SinOperacionesEnCurso => ~loading)
  /\ [][\A o \in 1..MaxOperaciones : Termina(o) => ~loading']_vars
  /\ [][\A o \in 1..MaxOperaciones :
          FallaOptimizarRutas(o) => optimizationResult' = optimizationResult]_vars
  /\ \A o \in 1..MaxOperaciones : EnCurso(o) ~> ~EnCurso(o)

\* an optimizarRutas has just failed after an earlier one stored its answer,
\* an import has stored its answer too, and no call is under way
C21_Witness ==
  /\ SinOperacionesEnCurso
  /\ ultima = "rechazada"
  /\ optimizationResult # 0
  /\ uploadResult
  /\ ~loading

====
